---- MODULE Spec2Model ----
(***************************************************************************)
(* Model of the poll-detect-remediate control loop of src/agent/agent.py.  *)
(* Utilisation values are in tenths of a CPU core, averages are exact      *)
(* rationals [num, den], strings that the code inspects character by       *)
(* character are sequences of one-character strings.                       *)
(***************************************************************************)
EXTENDS Integers, Sequences, FiniteSets, TLC

VARIABLES environ, PROM_URL, SLACK_WEBHOOK, GITHUB_TOKEN, GITHUB_REPO,
          DRY_RUN, AUTO_APPLY, CPU_THRESHOLD,
          pc, upstream, avg_cpu, results, plan, trace, calls, posts,
          notice, ret, effects, sleepFor

vars == <<environ, PROM_URL, SLACK_WEBHOOK, GITHUB_TOKEN, GITHUB_REPO,
          DRY_RUN, AUTO_APPLY, CPU_THRESHOLD,
          pc, upstream, avg_cpu, results, plan, trace, calls, posts,
          notice, ret, effects, sleepFor>>

config == <<environ, PROM_URL, SLACK_WEBHOOK, GITHUB_TOKEN, GITHUB_REPO,
            DRY_RUN, AUTO_APPLY, CPU_THRESHOLD>>

(* ---------------------------------------------------------------- bounds *)
MaxSeries == 2

(* ------------------------------------------------------------- constants *)
poll_interval == 30

DefaultThreshold == 5

(* ------------------------------------------------------ environment text *)
Unset == [set |-> FALSE, val |-> <<>>]

EnvText(s) == [set |-> TRUE, val |-> s]

TrueText == <<"t", "r", "u", "e">>

FalseText == <<"f", "a", "l", "s", "e">>

FlagValues == {Unset, EnvText(TrueText), EnvText(<<"T", "r", "u", "e">>),
               EnvText(FalseText)}

ThresholdValues == {Unset, EnvText(<<"0", ".", "4">>)}

getenv(v, default) == IF v.set THEN v.val ELSE default

LowerChar(c) ==
  CASE c = "T" -> "t" [] c = "R" -> "r" [] c = "U" -> "u" [] c = "E" -> "e"
    [] c = "F" -> "f" [] c = "A" -> "a" [] c = "L" -> "l" [] c = "S" -> "s"
    [] OTHER -> c

lower(s) == [i \in 1..Len(s) |-> LowerChar(s[i])]

FlagOf(v, default) == lower(getenv(v, default)) = TrueText

DryRunFlag(e) == FlagOf(e.DRY_RUN, TrueText)

AutoApplyFlag(e) == FlagOf(e.AUTO_APPLY, FalseText)

ThresholdOf(v) == IF v.set THEN 4 ELSE DefaultThreshold

(* ------------------------------------------------------------ the sampler *)
Readings == {"0.4", "0.5", "0.6", "x"}

float(s) ==
  CASE s = "0.4" -> [ok |-> TRUE, v |-> 4]
    [] s = "0.5" -> [ok |-> TRUE, v |-> 5]
    [] s = "0.6" -> [ok |-> TRUE, v |-> 6]
    [] OTHER -> [ok |-> FALSE, v |-> 0]

RECURSIVE sum(_)
sum(values) == IF values = <<>> THEN 0 ELSE Head(values) + sum(Tail(values))

Zero == [num |-> 0, den |-> 1]

SeriesSets == UNION {[1..n -> Readings] : n \in 0..MaxSeries}

Upstreams == {[status |-> "http_error", series |-> <<>>]}
             \cup {[status |-> "ok", series |-> s] : s \in SeriesSets}

query_prometheus(url, up) ==
  IF ~url THEN [raised |-> TRUE, called |-> FALSE, result |-> <<>>]
  ELSE IF up.status # "ok" THEN [raised |-> TRUE, called |-> TRUE, result |-> <<>>]
  ELSE [raised |-> FALSE, called |-> TRUE, result |-> up.series]

get_average_cpu_unguarded(url, up) ==
  LET data == query_prometheus(url, up)
      rs == data.result
      parsed == [i \in 1..Len(rs) |-> float(rs[i])]
      values == [i \in 1..Len(rs) |-> parsed[i].v]
  IN  IF data.raised
      THEN [avg |-> Zero, results |-> <<>>, called |-> data.called]
      ELSE [avg |-> IF values # <<>> THEN [num |-> sum(values), den |-> Len(values)]
                    ELSE Zero,
            results |-> rs, called |-> data.called]

get_average_cpu_for_deployment(url, up) ==
  LET data == query_prometheus(url, up)
      rs == data.result
      parsed == [i \in 1..Len(rs) |-> float(rs[i])]
      values == [i \in 1..Len(rs) |-> parsed[i].v]
  IN  IF data.raised \/ \E i \in 1..Len(rs) : ~parsed[i].ok
      THEN [avg |-> Zero, results |-> <<>>, called |-> data.called]
      ELSE [avg |-> IF values # <<>> THEN [num |-> sum(values), den |-> Len(values)]
                    ELSE Zero,
            results |-> rs, called |-> data.called]

(* ------------------------------------------------- evaluator and planner *)
BreachAtOrAbove(avg, threshold) == avg.num >= threshold * avg.den

Breach(avg, threshold) == avg.num > threshold * avg.den

simple_llm_reasoning(mentionsCpu) ==
  IF mentionsCpu
  THEN <<"Scale up replica count", "Restart pods of the deployment",
         "Check for hot loops", "If persists, create PR">>
  ELSE <<"Investigate further">>

(* ------------------------------------------------------------- the sink *)
PostOutcomes == {"2xx", "status>=300", "exception"}

post_slack(webhook, outcome) ==
  IF ~webhook THEN [posts |-> 0, logged |-> "message printed", raised |-> FALSE]
  ELSE IF outcome = "exception"
  THEN [posts |-> 1, logged |-> "post exception", raised |-> FALSE]
  ELSE IF outcome = "status>=300"
  THEN [posts |-> 1, logged |-> "post failed", raised |-> FALSE]
  ELSE [posts |-> 1, logged |-> "nothing", raised |-> FALSE]

(* ------------------------------------------------------- the executor *)
SelectActionAutoOverrides(dry, auto) ==
  IF auto THEN "Restarting"
  ELSE IF dry THEN "DryRunSkip" ELSE "ProposingChange"

SelectActionSwapped(dry, auto) ==
  IF dry THEN "DryRunSkip"
  ELSE IF auto THEN "ProposingChange" ELSE "Restarting"

SelectAction(dry, auto) ==
  IF dry THEN "DryRunSkip"
  ELSE IF auto THEN "Restarting" ELSE "ProposingChange"

None == [ok |-> FALSE, msg |-> "none", raised |-> FALSE, failedAt |-> "none"]

Result(ok, msg, failedAt) ==
  [ok |-> ok, msg |-> msg, raised |-> FALSE, failedAt |-> failedAt]

Raise(failedAt) ==
  [ok |-> FALSE, msg |-> "none", raised |-> TRUE, failedAt |-> failedAt]

RestartOutcomes == [load_kube_config : BOOLEAN, load_incluster_config : BOOLEAN,
                    patch : BOOLEAN]

restart_deployment_k8s(o) ==
  IF ~o.load_kube_config /\ ~o.load_incluster_config
  THEN [calls |-> <<"load_kube_config", "load_incluster_config">>, effects |-> {},
        ret |-> Result(FALSE, "load error", "load_incluster_config")]
  ELSE LET loads == IF o.load_kube_config THEN <<"load_kube_config">>
                    ELSE <<"load_kube_config", "load_incluster_config">>
       IN  IF o.patch
           THEN [calls |-> Append(loads, "patch_namespaced_deployment"),
                 effects |-> {"patched"}, ret |-> Result(TRUE, "patched", "none")]
           ELSE [calls |-> Append(loads, "patch_namespaced_deployment"),
                 effects |-> {},
                 ret |-> Result(FALSE, "patch error", "patch_namespaced_deployment")]

PrOutcomes == [get_repo : BOOLEAN, get_branch : BOOLEAN, create_git_ref : BOOLEAN,
               get_contents : BOOLEAN, decode : BOOLEAN, update_file : BOOLEAN,
               create_pull : BOOLEAN]

create_github_pr_no_abort(token, repo, o) ==
  IF ~token \/ ~repo
  THEN [calls |-> <<>>, effects |-> {}, ret |-> Result(FALSE, "GitHub not configured", "none")]
  ELSE IF ~o.get_repo
  THEN [calls |-> <<"get_repo">>, effects |-> {}, ret |-> Raise("get_repo")]
  ELSE IF ~o.get_branch
  THEN [calls |-> <<"get_repo", "get_branch">>, effects |-> {}, ret |-> Raise("get_branch")]
  ELSE IF ~o.create_git_ref
  THEN [calls |-> <<"get_repo", "get_branch", "create_git_ref">>, effects |-> {},
        ret |-> Result(FALSE, "Failed create branch", "create_git_ref")]
  ELSE IF ~o.get_contents
  THEN [calls |-> <<"get_repo", "get_branch", "create_git_ref", "get_contents">>,
        effects |-> {"branch"},
        ret |-> Result(FALSE, "Failed read helm values", "get_contents")]
  ELSE IF ~o.decode
  THEN [calls |-> <<"get_repo", "get_branch", "create_git_ref", "get_contents">>,
        effects |-> {"branch"}, ret |-> Raise("decode")]
  ELSE IF ~o.create_pull
  THEN [calls |-> <<"get_repo", "get_branch", "create_git_ref", "get_contents",
                    "update_file", "create_pull">>,
        effects |-> IF o.update_file THEN {"branch", "commit"} ELSE {"branch"},
        ret |-> Result(FALSE, "Failed create PR", "create_pull")]
  ELSE [calls |-> <<"get_repo", "get_branch", "create_git_ref", "get_contents",
                    "update_file", "create_pull">>,
        effects |-> IF o.update_file THEN {"branch", "commit", "pr"}
                    ELSE {"branch", "pr"},
        ret |-> Result(TRUE, "PR created", "none")]

create_github_pr_update_helm(token, repo, o) ==
  IF ~token \/ ~repo
  THEN [calls |-> <<>>, effects |-> {}, ret |-> Result(FALSE, "GitHub not configured", "none")]
  ELSE IF ~o.get_repo
  THEN [calls |-> <<"get_repo">>, effects |-> {}, ret |-> Raise("get_repo")]
  ELSE IF ~o.get_branch
  THEN [calls |-> <<"get_repo", "get_branch">>, effects |-> {}, ret |-> Raise("get_branch")]
  ELSE IF ~o.create_git_ref
  THEN [calls |-> <<"get_repo", "get_branch", "create_git_ref">>, effects |-> {},
        ret |-> Result(FALSE, "Failed create branch", "create_git_ref")]
  ELSE IF ~o.get_contents
  THEN [calls |-> <<"get_repo", "get_branch", "create_git_ref", "get_contents">>,
        effects |-> {"branch"},
        ret |-> Result(FALSE, "Failed read helm values", "get_contents")]
  ELSE IF ~o.decode
  THEN [calls |-> <<"get_repo", "get_branch", "create_git_ref", "get_contents">>,
        effects |-> {"branch"}, ret |-> Raise("decode")]
  ELSE IF ~o.update_file
  THEN [calls |-> <<"get_repo", "get_branch", "create_git_ref", "get_contents",
                    "update_file">>,
        effects |-> {"branch"},
        ret |-> Result(FALSE, "Failed update file", "update_file")]
  ELSE IF ~o.create_pull
  THEN [calls |-> <<"get_repo", "get_branch", "create_git_ref", "get_contents",
                    "update_file", "create_pull">>,
        effects |-> {"branch", "commit"},
        ret |-> Result(FALSE, "Failed create PR", "create_pull")]
  ELSE [calls |-> <<"get_repo", "get_branch", "create_git_ref", "get_contents",
                    "update_file", "create_pull">>,
        effects |-> {"branch", "commit", "pr"},
        ret |-> Result(TRUE, "PR created", "none")]

(* ------------------------------------------------------------ main_loop *)
BreachBranch(breach) == IF breach THEN "plan" ELSE "sleep"

AfterPlanSkipsNotify == "decide"

AfterPlan == "notify"

AfterNotify == "decide"

SleepAfter(breach, interval) == IF breach THEN interval * 2 ELSE interval

Init ==
  /\ environ \in [DRY_RUN : FlagValues, AUTO_APPLY : FlagValues,
                  CPU_THRESHOLD : ThresholdValues]
  /\ PROM_URL \in BOOLEAN
  /\ SLACK_WEBHOOK \in BOOLEAN
  /\ GITHUB_TOKEN \in BOOLEAN
  /\ GITHUB_REPO \in BOOLEAN
  /\ DRY_RUN = DryRunFlag(environ)
  /\ AUTO_APPLY = AutoApplyFlag(environ)
  /\ CPU_THRESHOLD = ThresholdOf(environ.CPU_THRESHOLD)
  /\ pc = "start"
  /\ upstream = [status |-> "none", series |-> <<>>]
  /\ avg_cpu = Zero
  /\ results = <<>>
  /\ plan = <<>>
  /\ trace = <<>>
  /\ calls = <<>>
  /\ posts = 0
  /\ notice = "none"
  /\ ret = None
  /\ effects = {}
  /\ sleepFor = 0

Start ==
  /\ pc = "start"
  /\ pc' = "sample"
  /\ UNCHANGED <<config, upstream, avg_cpu, results, plan, trace, calls, posts,
                 notice, ret, effects, sleepFor>>

Sample ==
  /\ pc = "sample"
  /\ \E up \in Upstreams :
       LET s == get_average_cpu_for_deployment(PROM_URL, up)
       IN  /\ upstream' = up
           /\ avg_cpu' = s.avg
           /\ results' = s.results
           /\ calls' = IF s.called THEN <<"prometheus_get">> ELSE <<>>
  /\ trace' = <<"Sampling">>
  /\ plan' = <<>>
  /\ posts' = 0
  /\ notice' = "none"
  /\ ret' = None
  /\ effects' = {}
  /\ sleepFor' = 0
  /\ pc' = "evaluate"
  /\ UNCHANGED config

Evaluate ==
  /\ pc = "evaluate"
  /\ pc' = BreachBranch(Breach(avg_cpu, CPU_THRESHOLD))
  /\ UNCHANGED <<config, upstream, avg_cpu, results, plan, trace, calls, posts,
                 notice, ret, effects, sleepFor>>

Plan ==
  /\ pc = "plan"
  /\ plan' = simple_llm_reasoning(TRUE)
  /\ trace' = Append(trace, "Planning")
  /\ pc' = AfterPlan
  /\ UNCHANGED <<config, upstream, avg_cpu, results, calls, posts, notice, ret,
                 effects, sleepFor>>

Notify ==
  /\ pc = "notify"
  /\ \E outcome \in PostOutcomes :
       LET r == post_slack(SLACK_WEBHOOK, outcome)
       IN  /\ posts' = posts + r.posts
           /\ calls' = IF r.posts = 1 THEN Append(calls, "slack_post") ELSE calls
           /\ notice' = r.logged
           /\ pc' = IF r.raised THEN "crashed" ELSE AfterNotify
  /\ trace' = Append(trace, "Notifying")
  /\ UNCHANGED <<config, upstream, avg_cpu, results, plan, ret, effects, sleepFor>>

Finish(r) ==
  /\ calls' = calls \o r.calls
  /\ effects' = r.effects
  /\ ret' = r.ret
  /\ pc' = IF r.ret.raised THEN "crashed" ELSE "sleep"

DryRunSkip ==
  /\ pc = "decide"
  /\ SelectAction(DRY_RUN, AUTO_APPLY) = "DryRunSkip"
  /\ trace' = Append(trace, "DryRunSkip")
  /\ pc' = "sleep"
  /\ UNCHANGED <<config, upstream, avg_cpu, results, plan, calls, posts, notice,
                 ret, effects, sleepFor>>

Restart ==
  /\ pc = "decide"
  /\ SelectAction(DRY_RUN, AUTO_APPLY) = "Restarting"
  /\ trace' = Append(trace, "Restarting")
  /\ \E o \in RestartOutcomes : Finish(restart_deployment_k8s(o))
  /\ UNCHANGED <<config, upstream, avg_cpu, results, plan, posts, notice, sleepFor>>

ProposeChange ==
  /\ pc = "decide"
  /\ SelectAction(DRY_RUN, AUTO_APPLY) = "ProposingChange"
  /\ trace' = Append(trace, "ProposingChange")
  /\ \E o \in PrOutcomes :
       Finish(create_github_pr_update_helm(GITHUB_TOKEN, GITHUB_REPO, o))
  /\ UNCHANGED <<config, upstream, avg_cpu, results, plan, posts, notice, sleepFor>>

Sleep ==
  /\ pc = "sleep"
  /\ sleepFor' = SleepAfter(Breach(avg_cpu, CPU_THRESHOLD), poll_interval)
  /\ pc' = "sleeping"
  /\ UNCHANGED <<config, upstream, avg_cpu, results, plan, trace, calls, posts,
                 notice, ret, effects>>

Wake ==
  /\ pc = "sleeping"
  /\ pc' = "sample"
  /\ UNCHANGED <<config, upstream, avg_cpu, results, plan, trace, calls, posts,
                 notice, ret, effects, sleepFor>>

Interrupt ==
  /\ pc \notin {"crashed", "stopped"}
  /\ pc' = "stopped"
  /\ UNCHANGED <<config, upstream, avg_cpu, results, plan, trace, calls, posts,
                 notice, ret, effects, sleepFor>>

Next ==
  \/ Start
  \/ Sample
  \/ Evaluate
  \/ Plan
  \/ Notify
  \/ DryRunSkip
  \/ Restart
  \/ ProposeChange
  \/ Sleep
  \/ Wake
  \/ Interrupt

Spec == Init /\ [][Next]_vars

(* ------------------------------------------------------------ properties *)
In(seq, x) == \E i \in DOMAIN seq : seq[i] = x

Count(seq, x) == Cardinality({i \in DOMAIN seq : seq[i] = x})

IsPrefix(a, b) == Len(a) <= Len(b) /\ \A i \in DOMAIN a : a[i] = b[i]

Above == avg_cpu.num > CPU_THRESHOLD * avg_cpu.den

IterationOver == pc \in {"sleep", "sleeping", "crashed"}

RestartCalls == {"load_kube_config", "load_incluster_config",
                 "patch_namespaced_deployment"}

ProposeCalls == {"get_repo", "get_branch", "create_git_ref", "get_contents",
                 "update_file", "create_pull"}

Remediations == {"Restarting", "ProposingChange"}

(* C1: with the dry-run flag true, restart_deployment_k8s and              *)
(* create_github_pr_update_helm are never invoked, whatever auto-apply is:  *)
(* no remediation phase, no remediation call, no effect.                    *)
C1_DryRunNoRemediation ==
  DRY_RUN => /\ \A x \in Remediations : ~In(trace, x)
             /\ \A c \in RestartCalls \cup ProposeCalls : ~In(calls, c)
             /\ effects = {}
             /\ ret = None

C1_Witness ==
  /\ DRY_RUN /\ AUTO_APPLY /\ Above
  /\ pc = "sleeping" /\ In(trace, "DryRunSkip")

(* C2: a breach iteration with dry-run false invokes exactly one            *)
(* remediation action: Restart alone when auto-apply is true, ProposeChange *)
(* alone when it is false; no iteration invokes both.                       *)
C2_ExactlyOneRemediation ==
  /\ Count(trace, "Restarting") + Count(trace, "ProposingChange") <= 1
  /\ ~(In(trace, "Restarting") /\ \E c \in ProposeCalls : In(calls, c))
  /\ ~(In(trace, "ProposingChange") /\ \E c \in RestartCalls : In(calls, c))
  /\ (IterationOver /\ Above /\ ~DRY_RUN) =>
        /\ AUTO_APPLY => Count(trace, "Restarting") = 1 /\ ~In(trace, "ProposingChange")
        /\ ~AUTO_APPLY => Count(trace, "ProposingChange") = 1 /\ ~In(trace, "Restarting")

C2_Witness ==
  /\ ~DRY_RUN /\ ~AUTO_APPLY /\ Above /\ pc = "sleeping"
  /\ In(trace, "ProposingChange") /\ In(calls, "create_pull")

(* C3: no failure of an external call made in the loop body propagates out  *)
(* of main_loop; the loop is ended by an interrupt only.                    *)
C3_LoopBodyNeverFatal == pc # "crashed"

(* C4: with PROMETHEUS_URL not configured, no loop iteration is performed:  *)
(* nothing is sampled, nothing evaluated, no sleep taken.                   *)
C4_NoIterationWithoutPromUrl ==
  ~PROM_URL => /\ trace = <<>>
               /\ sleepFor = 0
               /\ pc \notin {"evaluate", "sleep", "sleeping"}

(* C5: a plan is produced and a notification attempted if and only if the   *)
(* sampled average is strictly greater than the threshold; at or below the  *)
(* threshold there is no plan, no notification and no remediation.          *)
C5_BreachIffStrictlyAbove ==
  /\ (In(trace, "Planning") \/ In(trace, "Notifying") \/ plan # <<>>) => Above
  /\ IterationOver =>
       IF Above
       THEN plan # <<>> /\ In(trace, "Planning") /\ In(trace, "Notifying")
            /\ notice # "none"
       ELSE /\ plan = <<>> /\ posts = 0 /\ notice = "none"
            /\ trace = <<"Sampling">>
            /\ effects = {} /\ ret = None
            /\ \A c \in RestartCalls \cup ProposeCalls \cup {"slack_post"} : ~In(calls, c)

C5_Witness ==
  /\ pc = "sleeping"
  /\ avg_cpu.num = CPU_THRESHOLD * avg_cpu.den /\ avg_cpu.den = 2
  /\ plan = <<>> /\ posts = 0

(* C6: every breach iteration ends in a sleep of twice the base poll        *)
(* interval, whatever the mode flags and the remediation outcome; every     *)
(* non-breach iteration ends in a sleep of exactly the base interval.       *)
C6_CooldownAfterEveryBreach ==
  /\ ~(Above /\ pc = "crashed")
  /\ pc = "sleeping" => sleepFor = IF Above THEN 2 * poll_interval ELSE poll_interval

(* C7: ProposeChange runs branch creation, file read, file update and       *)
(* pull-request creation in that order; the first of them that fails is the *)
(* last one run and its error is the result message with success false;     *)
(* success is true only when the pull request exists; nothing done earlier  *)
(* is undone.                                                               *)
SubSteps == <<"create_git_ref", "get_contents", "update_file", "create_pull">>

SubStepCalls == SelectSeq(calls, LAMBDA c : \E i \in 1..4 : SubSteps[i] = c)

FailMsg(c) ==
  CASE c = "create_git_ref" -> "Failed create branch"
    [] c = "get_contents" -> "Failed read helm values"
    [] c = "update_file" -> "Failed update file"
    [] c = "create_pull" -> "Failed create PR"
    [] OTHER -> "none"

StepEffect(c) ==
  CASE c = "create_git_ref" -> {"branch"}
    [] c = "update_file" -> {"commit"}
    [] c = "create_pull" -> {"pr"}
    [] OTHER -> {}

C7_ProposeChangeSubSteps ==
  In(trace, "ProposingChange") =>
    /\ IsPrefix(SubStepCalls, SubSteps)
    /\ ret.ok <=> "pr" \in effects
    /\ \A i \in 1..4 :
         ret.failedAt = SubSteps[i] =>
            /\ Len(SubStepCalls) = i
            /\ ~ret.ok /\ ~ret.raised /\ ret.msg = FailMsg(SubSteps[i])
            /\ effects = UNION {StepEffect(SubSteps[j]) : j \in 1..(i - 1)}
    /\ \A i \in 1..Len(SubStepCalls) :
         (i < Len(SubStepCalls) \/ ret.failedAt # SubSteps[i])
            => StepEffect(SubSteps[i]) \subseteq effects
    /\ (~ret.ok /\ ~ret.raised /\ SubStepCalls # <<>>) => ret.failedAt = SubSteps[Len(SubStepCalls)]

C7_Witness ==
  /\ pc = "sleeping" /\ In(trace, "ProposingChange")
  /\ "branch" \in effects /\ "pr" \notin effects
  /\ ~ret.ok /\ ret.msg = "Failed read helm values"

(* C8: the sampler returns sum(values)/n and the raw readings for n > 0     *)
(* parsable readings, and 0.0 with an empty list when there is no series or *)
(* the query or the parsing of a reading raises; sampling identical         *)
(* upstream data twice gives the same average.                              *)
Parsable == {"0.4", "0.5", "0.6"}

SeriesTotal(s) == 4 * Count(s, "0.4") + 5 * Count(s, "0.5") + 6 * Count(s, "0.6")

SamplerContract ==
  trace # <<>> =>
    LET s == upstream.series
        good == /\ PROM_URL /\ upstream.status = "ok"
                /\ \A i \in DOMAIN s : s[i] \in Parsable
    IN  IF good /\ Len(s) > 0
        THEN /\ avg_cpu.den > 0
             /\ avg_cpu.num * Len(s) = SeriesTotal(s) * avg_cpu.den
             /\ results = s
        ELSE avg_cpu.num = 0 /\ avg_cpu.den = 1 /\ results = <<>>

SamplerRepeatable ==
  (pc = "sample" /\ pc' = "evaluate" /\ upstream' = upstream)
     => (avg_cpu' = avg_cpu /\ results' = results)

C8_SamplerMean == []SamplerContract /\ [][SamplerRepeatable]_vars

C8_Witness ==
  /\ pc = "evaluate" /\ PROM_URL
  /\ upstream = [status |-> "ok", series |-> <<"0.4", "0.5">>]
  /\ avg_cpu.num * 2 = 9 * avg_cpu.den /\ results = <<"0.4", "0.5">>

(* C9: with DRY_RUN left unset, dry-run is on when AUTO_APPLY is not true   *)
(* and off when AUTO_APPLY is true.                                         *)
C9_DryRunUnlessAutoApply ==
  ~environ.DRY_RUN.set => (DRY_RUN <=> ~AUTO_APPLY)

(* C10: an iteration runs Sampling, then sleeps (no breach) or runs         *)
(* Planning, Notifying and exactly one of DryRun-Skip, Restarting,          *)
(* ProposingChange before it sleeps; the notification is attempted exactly  *)
(* once, before any remediation call, and is never retried.                 *)
AllowedTraces ==
  {<<"Sampling">>}
  \cup {<<"Sampling", "Planning", "Notifying", x>> :
          x \in {"DryRunSkip", "Restarting", "ProposingChange"}}

C10_IterationOrder ==
  /\ \E t \in AllowedTraces : IsPrefix(trace, t)
  /\ pc \in {"sleep", "sleeping"} => trace \in AllowedTraces /\ (Len(trace) = 4 <=> Above)
  /\ posts <= 1
  /\ Count(calls, "slack_post") = posts
  /\ (\E x \in Remediations : In(trace, x)) =>
        /\ Count(trace, "Notifying") = 1
        /\ notice # "none"
        /\ posts = IF SLACK_WEBHOOK THEN 1 ELSE 0
  /\ \A i \in DOMAIN calls :
        calls[i] \in RestartCalls \cup ProposeCalls =>
           /\ In(trace, "Notifying")
           /\ \A j \in DOMAIN calls : calls[j] = "slack_post" => j < i

C10_Witness ==
  /\ pc = "sleeping" /\ trace = <<"Sampling", "Planning", "Notifying", "Restarting">>
  /\ posts = 1 /\ notice = "post failed" /\ "patched" \in effects
====
